---- MODULE Spec2Model ----
(***************************************************************************)
(* Monitoring Session Engine of the exam proctoring backend.               *)
(*                                                                         *)
(* The persistent state is the MongoDB content: the exams and the          *)
(* monitoring sessions.  Every HTTP handler is an async function; between  *)
(* two awaits a handler runs alone (one Node event loop), and at every     *)
(* await other handlers may run.  A handler is therefore modelled as a     *)
(* chain of actions, one per database round trip, over a request slot      *)
(* req[r] that holds the handler's local variables (the loaded mongoose    *)
(* document among them).                                                   *)
(***************************************************************************)
EXTENDS Integers, Sequences, FiniteSets, TLC

\* ---------------------------------------------------------------- bounds
MaxInFlight == 2        \* request slots: handlers that may overlap
MaxRequests == 4        \* requests received in one behaviour of the server
MaxRecorded == 2        \* requests received in one recorded behaviour
MaxFinalize == 2        \* requests received in one behaviour of the ledgers
MaxPublished == 2       \* requests received in one behaviour with events
MaxEnded == 3           \* requests received in one behaviour of endExam
MaxLabel == 4           \* characters of a reported label
MaxMarked == 2          \* requests received in one behaviour of the attendance
MaxBatch == 2           \* labels reported in one reconciliation pass
MaxEnrolled == 3        \* requests received in one behaviour of the enrolment

\* ------------------------------------------------------- database content
NULL == "null"
Students == {"s1", "s2"}
Staff == {"inv"}
Users == Students \cup Staff
Exams == {"e1"}
Requests == 1..MaxInFlight

role(u) == IF u \in Students THEN "student" ELSE "invigilator"

\* User.faceData: the registered face descriptor (null until registered).
faceData(u) == IF u = "s1" THEN "descriptor" ELSE NULL

\* User.verificationStatus, default "pending".
verificationStatus(u) == IF u = "s1" THEN "verified" ELSE "pending"

\* Exam.examSettings.faceVerificationRequired, default true.
faceVerificationRequired(e) == TRUE

\* Exam.enrolledStudents of the exams in the database.
InitialEnrolled(e) == <<"s1">>

Statuses == {"active", "paused", "completed", "terminated"}
Terminal == {"completed", "terminated"}
Live == {"active", "paused"}

VARIABLES
    exams,      \* Exam collection: exam id -> [status, enrolledStudents,
                \* version (the __v of the document)]
    sessions,   \* MonitoringSession collection, in insertion order
    req,        \* request slots: the local state of the handlers in flight
    nreq,       \* number of requests received so far
    run,        \* how the server is driven: serial (requests never overlap),
                \* recording (the requests received are kept in hist),
                \* publishing (the events emitted are kept in events), faults
                \* (a database write or an emit may throw), budget (the
                \* number of requests received in the behaviour)
    hist,       \* the requests received, in order of arrival, when recording
    events,     \* the events emitted on the socket server, in order, when
                \* publishing
    policy,     \* a risk score and the recommendation derived from it
    attendance, \* Attendance collection in insertion order (records), the
                \* clock read by new Date() (now), and whether the mongoose of
                \* the build strips unknown paths from a filter (strictQuery)
    calls,      \* the locals and the response data of the attendance handlers
    recon       \* one label matched against one roster: inputs and verdicts

vars == <<exams, sessions, req, nreq, run, hist, events, policy,
          attendance, calls, recon>>

\* ------------------------------------------------------------- helpers
Range(s) == {s[i] : i \in 1..Len(s)}

Min(a, b) == IF a < b THEN a ELSE b

RECURSIVE SumSeq(_)
SumSeq(s) == IF s = <<>> THEN 0 ELSE Head(s) + SumSeq(Tail(s))

\* Absent values of the record-valued fields.
NoViolation == [type |-> NULL, severity |-> NULL]
NoVerification == [result |-> NULL]
NoReport == [totalViolations |-> 0, riskScore |-> 0, recommendation |-> NULL,
             notes |-> 0]
NoDoc ==
    [sessionId |-> 0, exam |-> NULL, student |-> NULL, status |-> NULL,
     endTime |-> NULL, violations |-> <<>>, faceVerifications |-> <<>>,
     isTerminated |-> FALSE, terminationReason |-> NULL, finalReport |-> NoReport]

\* A handler that holds no exam document.
NoExam == [status |-> NULL, enrolledStudents |-> <<>>, version |-> 0]

NoPolicy == [riskScore |-> 0, recommendation |-> NULL]

\* An attendance handler's locals: the parsed date, presentStudentIds,
\* modifiedCount (result.length for createInitialAttendance) and the summary.
NoCall ==
    [date |-> 0, ids |-> <<>>, updated |-> 0, present |-> 0, absent |-> 0,
     total |-> 0]

NoAttendance == [records |-> <<>>, now |-> 1, strictQuery |-> TRUE]

\* The reconciliation engine alone: the variant applied, the roster, one
\* label with the record matched and the status of its verdict, or a batch
\* of labels with the verdicts and presentStudentIds.
NoRecon == [variant |-> NULL, roster |-> <<>>, label |-> <<>>,
            matched |-> 0, status |-> NULL,
            labels |-> <<>>, log |-> <<>>, ids |-> <<>>]

\* A request slot with nothing in it.  doc is the mongoose document the handler
\* loaded, with the handler's assignments applied, dirty its modified paths,
\* and event what the handler puts in the event it emits.
IdleReq ==
    [op |-> "none", pc |-> "idle", user |-> NULL, exam |-> NULL, sid |-> 0,
     violation |-> NoViolation, verification |-> NoVerification,
     doc |-> NoDoc, dirty |-> {}, loaded |-> NoExam, event |-> NULL,
     code |-> 0, out |-> 0]

Free(r) == req[r].pc \in {"idle", "done"}

\* A request arrives and takes a free slot; request is what the client sent.
Arrive(r, request) ==
    /\ Free(r)
    /\ run.serial => \A q \in Requests : Free(q)
    /\ nreq < run.budget
    /\ nreq' = nreq + 1
    /\ hist' = IF run.recording THEN Append(hist, request) ELSE hist
    /\ UNCHANGED <<run, events, policy>>

\* A request of the session engine: it never touches the attendance.
Receive(r, request) ==
    /\ Arrive(r, request)
    /\ UNCHANGED <<attendance, calls, recon>>

\* What a client sends: the route, the authenticated user and the parameters.
Request(o, u, e, sid, a, b) ==
    [op |-> o, user |-> u, exam |-> e, sid |-> sid, a |-> a, b |-> b]

\* A handler in flight goes on after an await.
Proceed(r, o, at) ==
    /\ req[r].op = o
    /\ req[r].pc = at
    /\ UNCHANGED <<nreq, run, hist, policy>>

\* A handler of the session engine goes on.
Resume(r, o, at) ==
    /\ Proceed(r, o, at)
    /\ UNCHANGED <<attendance, calls, recon>>

\* ... and emits nothing before its next await.
Continue(r, o, at) ==
    /\ Resume(r, o, at)
    /\ UNCHANGED events

\* Whether an awaited database write, or an emit, returns (TRUE) or throws.
Outcomes == IF run.faults THEN BOOLEAN ELSE {TRUE}

\* Session ids a request may name: those in use and one that is not.
SessionIds == 1..(Len(sessions) + 1)

\* res.status(code).json(...): the handler returns and its locals are gone; the
\* slot keeps the response (status code, and the session of data.session).
Respond(r, o, u, e, c, sessionOut) ==
    req' = [req EXCEPT ![r] = [IdleReq EXCEPT !.op = o, !.pc = "done", !.user = u,
                                              !.exam = e, !.code = c,
                                              !.out = sessionOut]]

\* A response that carries no session: only the status code stays.
Reply(r, o, c) ==
    req' = [req EXCEPT ![r] = [IdleReq EXCEPT !.op = o, !.pc = "done", !.code = c]]

\* What the catch of a thrown emit leaves in the collection: the handler (the
\* catch block of verifyFace, the error middleware for the others) answers
\* 500 and touches no document.
Caught_RollBack(r) ==
    IF req[r].op = "report"
    THEN [sessions EXCEPT ![req[r].sid].violations = SubSeq(@, 1, Len(@) - 1)]
    ELSE IF req[r].op \in {"start", "join"}
    THEN SubSeq(sessions, 1, Len(sessions) - 1)
    ELSE sessions

Caught(r) == sessions

\* req.app.get("io").emit(name, {...}) and the response, after the awaited
\* write has returned: the event goes out, or the emit throws.
Emit(r, o, name, c) ==
    /\ Resume(r, o, "emit")
    /\ UNCHANGED exams
    /\ \E ok \in Outcomes :
          IF ok
          THEN /\ events' = IF run.publishing
                            THEN Append(events, [name |-> name, sid |-> req[r].sid,
                                                 a |-> req[r].event])
                            ELSE events
               /\ UNCHANGED sessions
               /\ IF req[r].out # 0
                  THEN Respond(r, o, req[r].user, req[r].exam, c, req[r].out)
                  ELSE Reply(r, o, c)
          ELSE /\ UNCHANGED events
               /\ sessions' = Caught(r)
               /\ Reply(r, o, 500)

\* --------------------------------------------------- MonitoringSession model
\* Schema defaults of a created MonitoringSession document.
NewSession(id, e, u) ==
    [sessionId |-> id, exam |-> e, student |-> u, status |-> "active",
     endTime |-> NULL, violations |-> <<>>, faceVerifications |-> <<>>,
     isTerminated |-> FALSE, terminationReason |-> NULL, finalReport |-> NoReport]

\* MonitoringSession.findOne({ sessionId }): 0 when there is none.
FindBySessionId(sid) == IF sid \in 1..Len(sessions) THEN sid ELSE 0

\* MonitoringSession.findOne({ exam, student, status: {$in: [active, paused]} }):
\* the first match in natural order, 0 when there is none.
LiveSessionsOf(e, u) ==
    {i \in 1..Len(sessions) : /\ sessions[i].exam = e
                              /\ sessions[i].student = u
                              /\ sessions[i].status \in Live}

FindLive(e, u) ==
    IF LiveSessionsOf(e, u) = {} THEN 0
    ELSE CHOOSE i \in LiveSessionsOf(e, u) : \A j \in LiveSessionsOf(e, u) : i <= j

isEnrolled(e, u) == \E i \in 1..Len(exams[e].enrolledStudents) :
                        exams[e].enrolledStudents[i] = u

\* ------------------------------------------------------------------ Init
\* The server starts on a database that holds the exams, ongoing, and no session.
InitServer ==
    /\ req = [r \in Requests |-> IdleReq]
    /\ nreq = 0
    /\ hist = <<>>
    /\ events = <<>>
    /\ attendance = NoAttendance
    /\ calls = [r \in Requests |-> NoCall]
    /\ recon = NoRecon

InitExams ==
    exams = [e \in Exams |-> [status |-> "ongoing",
                               enrolledStudents |-> InitialEnrolled(e),
                               version |-> 0]]

Init ==
    /\ InitServer
    /\ InitExams
    /\ sessions = <<>>
    /\ run = [serial |-> FALSE, recording |-> FALSE, publishing |-> FALSE,
              faults |-> FALSE, budget |-> MaxRequests]
    /\ policy = NoPolicy

\* ------------------------------------------------ startMonitoringSession
\* Exam.findById, the status and enrolment checks, then the findOne is issued.
startMonitoringSession(r, u, e) ==
    /\ Receive(r, Request("start", u, e, 0, NULL, NULL))
    /\ u \in Students
    /\ UNCHANGED <<exams, sessions>>
    /\ IF exams[e].status # "ongoing" THEN Reply(r, "start", 400)
       ELSE IF ~isEnrolled(e, u) THEN Reply(r, "start", 403)
       ELSE req' = [req EXCEPT ![r] = [IdleReq EXCEPT !.op = "start",
                                         !.pc = "findExisting", !.user = u, !.exam = e]]

\* A rejoin that announces the session it found, like a creation.
FindExisting_Announce(r, o) ==
    /\ Continue(r, o, "findExisting")
    /\ UNCHANGED <<exams, sessions>>
    /\ LET existing == FindLive(req[r].exam, req[r].user) IN
       req' = [req EXCEPT ![r].pc = IF existing # 0 THEN "emit" ELSE "create",
                          ![r].sid = existing, ![r].out = existing]

\* The findOne for a live session returns: rejoin, or go on to create.
FindExisting(r, o) ==
    /\ Continue(r, o, "findExisting")
    /\ UNCHANGED <<exams, sessions>>
    /\ LET existing == FindLive(req[r].exam, req[r].user) IN
       IF existing # 0
       THEN Respond(r, o, req[r].user, req[r].exam, 200, existing)
       ELSE req' = [req EXCEPT ![r].pc = "create"]

\* MonitoringSession.create: the document is inserted, or the insert throws.
CreateSession(r, o) ==
    /\ Continue(r, o, "create")
    /\ UNCHANGED exams
    /\ \E ok \in Outcomes :
          IF ok
          THEN /\ sessions' = Append(sessions,
                        NewSession(Len(sessions) + 1, req[r].exam, req[r].user))
               /\ req' = [req EXCEPT ![r].pc = "emit",
                                     ![r].sid = Len(sessions) + 1,
                                     ![r].out = Len(sessions) + 1]
          ELSE UNCHANGED sessions /\ Reply(r, o, 500)

startMonitoringSession_findExisting(r) == FindExisting(r, "start")

startMonitoringSession_create(r) == CreateSession(r, "start")

\* io.emit("sessionStarted", ...) and res.status(201)
startMonitoringSession_emit(r) == Emit(r, "start", "sessionStarted", 201)

\* ---------------------------------------------------------------- joinExam
joinExam(r, u, e) ==
    /\ Receive(r, Request("join", u, e, 0, NULL, NULL))
    /\ u \in Students
    /\ UNCHANGED <<exams, sessions>>
    /\ IF ~isEnrolled(e, u) THEN Reply(r, "join", 403)
       ELSE IF exams[e].status # "ongoing" THEN Reply(r, "join", 400)
       ELSE IF faceVerificationRequired(e) /\ verificationStatus(u) # "verified"
            THEN Reply(r, "join", 400)
       ELSE req' = [req EXCEPT ![r] = [IdleReq EXCEPT !.op = "join",
                                         !.pc = "findExisting", !.user = u, !.exam = e]]

joinExam_findExisting(r) == FindExisting(r, "join")

joinExam_create(r) == CreateSession(r, "join")

\* io.emit("studentJoined", ...) and res.status(200)
joinExam_emit(r) == Emit(r, "join", "studentJoined", 200)

\* ------------------------------------------------------ ledger methods
\* session.addViolation(v): push the entry and save; the save of a pushed
\* array entry is a $push on the stored document.
addViolation(sid, v) ==
    [sessions EXCEPT ![sid].violations = Append(@, v)]

\* session.addFaceVerification(v): push the entry and save.
addFaceVerification(sid, v) ==
    [sessions EXCEPT ![sid].faceVerifications = Append(@, v)]

\* A save that writes the whole local document over the stored one.
Save_WholeDocument(sid, doc, dirty) ==
    [sessions EXCEPT ![sid] =
        [f \in DOMAIN sessions[sid] |->
            IF f \in {"sessionId", "exam", "student"} THEN sessions[sid][f]
            ELSE doc[f]]]

\* session.save(): mongoose writes the modified paths, and only those.
Save(sid, doc, dirty) ==
    [sessions EXCEPT ![sid] =
        [f \in DOMAIN sessions[sid] |->
            IF f \in dirty THEN doc[f] ELSE sessions[sid][f]]]

\* ------------------------------------------------------- reportViolation
\* A check that lets every student through.
OwnerOrSupervisor_AnyRole(session, u) ==
    session.student = u \/ role(u) \in {"admin", "invigilator", "student"}

\* The session's own student, or a user whose role is admin or invigilator.
OwnerOrSupervisor(session, u) ==
    session.student = u \/ role(u) \in {"admin", "invigilator"}

ReportSeverities == {"low", "critical"}

\* const violation = { type, severity, description, evidence, timestamp }
ReportedViolation(severity) == [type |-> "tab_switch", severity |-> severity]

reportViolation(r, u, sid, severity) ==
    /\ Receive(r, Request("report", u, NULL, sid, severity, NULL))
    /\ UNCHANGED <<exams, sessions>>
    /\ IF FindBySessionId(sid) = 0 THEN Reply(r, "report", 404)
       ELSE IF ~OwnerOrSupervisor(sessions[sid], u) THEN Reply(r, "report", 403)
       ELSE req' = [req EXCEPT ![r] = [IdleReq EXCEPT
                          !.op = "report", !.pc = "addViolation", !.sid = sid,
                          !.violation = ReportedViolation(severity)]]

reportViolation_addViolation(r) ==
    /\ Continue(r, "report", "addViolation")
    /\ UNCHANGED exams
    /\ \E ok \in Outcomes :
          IF ok
          THEN /\ sessions' = addViolation(req[r].sid, req[r].violation)
               /\ req' = [req EXCEPT ![r] = [IdleReq EXCEPT
                               !.op = "report", !.pc = "emit", !.sid = req[r].sid,
                               !.event = req[r].violation.severity]]
          ELSE UNCHANGED sessions /\ Reply(r, "report", 500)

\* io.emit("violationReported", ...) and res.status(200)
reportViolation_emit(r) == Emit(r, "report", "violationReported", 200)

\* ------------------------------------------------------------ verifyFace
\* mockFaceRecognition.compareFaces: similarity = random * 0.4 + 0.6, in percent.
Similarities == {60, 99}
Threshold == 60

compareFaces(stored, similarity) ==
    IF stored = NULL THEN [confidence |-> 0, match |-> FALSE]
    ELSE [confidence |-> similarity, match |-> similarity >= Threshold]

\* The result of one verification, from the two random flags of detectFaces,
\* the student's faceData and the comparison.
VerificationResult(u, hasFace, multipleFaces, similarity) ==
    IF ~hasFace THEN "no_face"
    ELSE IF multipleFaces THEN "multiple_faces"
    ELSE IF faceData(u) # NULL
         THEN IF compareFaces(faceData(u), similarity).match THEN "verified" ELSE "failed"
    ELSE "no_reference"

CorrelatedViolation(result) ==
    IF result = "multiple_faces" THEN [type |-> "multiple_faces", severity |-> "high"]
    ELSE IF result = "failed" THEN [type |-> "unauthorized_person", severity |-> "critical"]
    ELSE NoViolation

verifyFace(r, u, sid, hasFace, multipleFaces, similarity) ==
    /\ Receive(r, Request("verify", u, NULL, sid,
                          VerificationResult(u, hasFace, multipleFaces, similarity), NULL))
    /\ UNCHANGED <<exams, sessions>>
    /\ IF FindBySessionId(sid) = 0 THEN Reply(r, "verify", 404)
       ELSE IF sessions[sid].student # u THEN Reply(r, "verify", 403)
       ELSE LET result == VerificationResult(u, hasFace, multipleFaces, similarity)
                v == CorrelatedViolation(result)
            IN req' = [req EXCEPT ![r] = [IdleReq EXCEPT
                             !.op = "verify",
                             !.pc = IF v # NoViolation THEN "addViolation"
                                    ELSE "addFaceVerification",
                             !.sid = sid,
                             !.violation = v,
                             !.verification = [result |-> result]]]

\* An error thrown inside the try block is caught: res.status(500).
verifyFace_addViolation(r) ==
    /\ Continue(r, "verify", "addViolation")
    /\ UNCHANGED exams
    /\ \E ok \in Outcomes :
          IF ok
          THEN /\ sessions' = addViolation(req[r].sid, req[r].violation)
               /\ req' = [req EXCEPT ![r].pc = "addFaceVerification",
                                     ![r].violation = NoViolation]
          ELSE UNCHANGED sessions /\ Reply(r, "verify", 500)

verifyFace_addFaceVerification(r) ==
    /\ Continue(r, "verify", "addFaceVerification")
    /\ UNCHANGED exams
    /\ \E ok \in Outcomes :
          IF ok
          THEN /\ sessions' = addFaceVerification(req[r].sid, req[r].verification)
               /\ req' = [req EXCEPT ![r] = [IdleReq EXCEPT
                               !.op = "verify", !.pc = "emit", !.sid = req[r].sid,
                               !.event = req[r].verification.result]]
          ELSE UNCHANGED sessions /\ Reply(r, "verify", 500)

\* io.emit("faceVerification", ...) and res.status(200)
verifyFace_emit(r) == Emit(r, "verify", "faceVerification", 200)

\* ------------------------------------------- risk scoring and recommendation
\* Points per violation, by severity.
SeverityPoints(severity) ==
    CASE severity = "low" -> 5
      [] severity = "medium" -> 15
      [] severity = "high" -> 30
      [] severity = "critical" -> 50
      [] OTHER -> 0

\* Penalty when any verification failed or saw several faces.
VerificationPenalty == 10

MaxRiskScore == 100

\* session.calculateRiskScore(): a weighted sum over the two ledgers, capped.
calculateRiskScore(doc) ==
    LET points == SumSeq([i \in 1..Len(doc.violations) |->
                             SeverityPoints(doc.violations[i].severity)])
        penalty == IF \E i \in 1..Len(doc.faceVerifications) :
                          doc.faceVerifications[i].result \in {"failed", "multiple_faces"}
                   THEN VerificationPenalty ELSE 0
    IN Min(MaxRiskScore, points + penalty)

\* let recommendation = "accept"; if (riskScore > 70) ...; else if (riskScore > 40) ...
RejectAbove == 70
ReviewAbove == 40

\* The policy with inclusive comparisons (>= where the code has >).
Recommendation_Inclusive(riskScore) ==
    IF riskScore >= RejectAbove THEN "reject"
    ELSE IF riskScore >= ReviewAbove THEN "review"
    ELSE "accept"

\* The policy with its two tests in the other order: the first test shadows
\* the second.
Recommendation_Reordered(riskScore) ==
    IF riskScore > ReviewAbove THEN "review"
    ELSE IF riskScore > RejectAbove THEN "reject"
    ELSE "accept"

Recommendation(riskScore) ==
    IF riskScore > RejectAbove THEN "reject"
    ELSE IF riskScore > ReviewAbove THEN "review"
    ELSE "accept"

\* A finalReport whose score also looks at the student's reference descriptor.
FinalReport_PerStudent(doc) ==
    LET riskScore == Min(MaxRiskScore, calculateRiskScore(doc)
                            + (IF faceData(doc.student) = NULL
                               THEN VerificationPenalty ELSE 0))
    IN [totalViolations |-> Len(doc.violations),
        riskScore |-> riskScore,
        recommendation |-> Recommendation(riskScore),
        notes |-> Len(doc.violations)]

\* The finalReport endMonitoringSession assigns to the loaded document.
FinalReport(doc) ==
    [totalViolations |-> Len(doc.violations),
     riskScore |-> calculateRiskScore(doc),
     recommendation |-> Recommendation(calculateRiskScore(doc)),
     notes |-> Len(doc.violations)]

\* The part of a loaded document a handler still uses after the load.
Local(doc, keep) == [f \in DOMAIN doc |-> IF f \in keep THEN doc[f] ELSE NoDoc[f]]

\* -------------------------------------------------- endMonitoringSession
\* The loaded document after the assignments of endMonitoringSession.
EndDoc(loaded) ==
    [loaded EXCEPT !.status = "completed", !.endTime = "date",
                   !.finalReport = FinalReport(loaded)]

endMonitoringSession(r, u, sid) ==
    /\ Receive(r, Request("end", u, NULL, sid, NULL, NULL))
    /\ u \in Students
    /\ UNCHANGED <<exams, sessions>>
    /\ IF FindBySessionId(sid) = 0 THEN Reply(r, "end", 404)
       ELSE IF sessions[sid].student # u THEN Reply(r, "end", 403)
       ELSE IF sessions[sid].status \in {"completed", "terminated"}
            THEN Reply(r, "end", 400)
       ELSE req' = [req EXCEPT ![r] = [IdleReq EXCEPT
                       !.op = "end", !.pc = "save", !.sid = sid,
                       !.doc = Local(EndDoc(sessions[sid]),
                                     {"status", "endTime", "finalReport",
                                      "violations", "faceVerifications"}),
                       !.dirty = {"status", "endTime", "finalReport"}]]

endMonitoringSession_save(r) ==
    /\ Continue(r, "end", "save")
    /\ UNCHANGED exams
    /\ \E ok \in Outcomes :
          IF ok
          THEN /\ sessions' = Save(req[r].sid, req[r].doc, req[r].dirty)
               /\ req' = [req EXCEPT ![r] = [IdleReq EXCEPT
                               !.op = "end", !.pc = "emit", !.sid = req[r].sid]]
          ELSE UNCHANGED sessions /\ Reply(r, "end", 500)

\* io.emit("sessionEnded", ...) and res.status(200)
endMonitoringSession_emit(r) == Emit(r, "end", "sessionEnded", 200)

\* --------------------------------------------------- updateSessionStatus
Reasons == {NULL, "reason"}

\* The paths updateSessionStatus modifies: an assignment of the value a path
\* already has leaves the path unmodified; new Date() is always a new value.
UpdateDirty(loaded, status) ==
    {f \in {"status"} : loaded.status # status}
    \cup (IF status = "terminated"
          THEN {f \in {"isTerminated"} : ~loaded.isTerminated}
               \cup {"terminationReason", "endTime"}
          ELSE IF status = "completed" THEN {"endTime"} ELSE {})

\* The loaded document after the assignments of updateSessionStatus.
UpdateDoc(loaded, status, reason) ==
    IF status = "terminated"
    THEN [loaded EXCEPT !.status = status, !.isTerminated = TRUE,
                        !.terminationReason =
                            IF reason # NULL THEN reason ELSE "Session terminated",
                        !.endTime = "date"]
    ELSE IF status = "completed"
    THEN [loaded EXCEPT !.status = status, !.endTime = "date"]
    ELSE [loaded EXCEPT !.status = status]

updateSessionStatus(r, u, sid, status, reason) ==
    /\ Receive(r, Request("update", u, NULL, sid, status, reason))
    /\ UNCHANGED <<exams, sessions>>
    /\ IF FindBySessionId(sid) = 0 THEN Reply(r, "update", 404)
       ELSE IF ~OwnerOrSupervisor(sessions[sid], u) THEN Reply(r, "update", 403)
       ELSE LET dirty == UpdateDirty(sessions[sid], status)
            IN req' = [req EXCEPT ![r] = [IdleReq EXCEPT
                          !.op = "update", !.pc = "save", !.sid = sid,
                          !.doc = Local(UpdateDoc(sessions[sid], status, reason), dirty),
                          !.dirty = dirty, !.event = status]]

updateSessionStatus_save(r) ==
    /\ Continue(r, "update", "save")
    /\ UNCHANGED exams
    /\ \E ok \in Outcomes :
          IF ok
          THEN /\ sessions' = Save(req[r].sid, req[r].doc, req[r].dirty)
               /\ req' = [req EXCEPT ![r] = [IdleReq EXCEPT
                               !.op = "update", !.pc = "emit", !.sid = req[r].sid,
                               !.event = req[r].event]]
          ELSE UNCHANGED sessions /\ Reply(r, "update", 500)

\* io.emit("sessionStatusChanged", ...) and res.status(200)
updateSessionStatus_emit(r) == Emit(r, "update", "sessionStatusChanged", 200)

\* ----------------------------------------------------------------- endExam
endExam(r, u, e) ==
    /\ Receive(r, Request("endExam", u, e, 0, NULL, NULL))
    /\ role(u) \in {"admin", "invigilator"}
    /\ UNCHANGED <<exams, sessions>>
    /\ IF exams[e].status # "ongoing" THEN Reply(r, "endExam", 400)
       ELSE req' = [req EXCEPT ![r] = [IdleReq EXCEPT !.op = "endExam",
                                         !.pc = "saveExam", !.exam = e]]

\* exam.status = "completed"; await exam.save()
endExam_save(r) ==
    /\ Continue(r, "endExam", "saveExam")
    /\ UNCHANGED sessions
    /\ \E ok \in Outcomes :
          IF ok
          THEN /\ exams' = [exams EXCEPT ![req[r].exam].status = "completed"]
               /\ req' = [req EXCEPT ![r].pc = "updateMany"]
          ELSE UNCHANGED exams /\ Reply(r, "endExam", 500)

\* The bulk update with a filter on the live statuses (active and paused).
endExam_updateMany_Live(r) ==
    /\ Continue(r, "endExam", "updateMany")
    /\ UNCHANGED exams
    /\ \E ok \in Outcomes :
          IF ok
          THEN /\ sessions' = [i \in 1..Len(sessions) |->
                      IF sessions[i].exam = req[r].exam /\ sessions[i].status \in Live
                      THEN [sessions[i] EXCEPT !.status = "completed", !.endTime = "date"]
                      ELSE sessions[i]]
               /\ req' = [req EXCEPT ![r].pc = "emit"]
          ELSE UNCHANGED sessions /\ Reply(r, "endExam", 500)

\* MonitoringSession.updateMany({exam, status: "active"}, {status, endTime})
endExam_updateMany(r) ==
    /\ Continue(r, "endExam", "updateMany")
    /\ UNCHANGED exams
    /\ \E ok \in Outcomes :
          IF ok
          THEN /\ sessions' = [i \in 1..Len(sessions) |->
                      IF sessions[i].exam = req[r].exam /\ sessions[i].status = "active"
                      THEN [sessions[i] EXCEPT !.status = "completed", !.endTime = "date"]
                      ELSE sessions[i]]
               /\ req' = [req EXCEPT ![r].pc = "emit"]
          ELSE UNCHANGED sessions /\ Reply(r, "endExam", 500)

\* io.emit("examEnded", ...) and res.status(200)
endExam_emit(r) == Emit(r, "endExam", "examEnded", 200)

\* ----------------------------------------------------------- enrollStudent
\* The route is open to admins only and the handler never reads req.user:
\* the request is its exam and its studentId.
enrollStudent(r, e, studentId) ==
    /\ Receive(r, Request("enroll", NULL, e, 0, studentId, NULL))
    /\ UNCHANGED <<exams, sessions>>
    /\ IF role(studentId) # "student" THEN Reply(r, "enroll", 404)
       ELSE IF isEnrolled(e, studentId) THEN Reply(r, "enroll", 400)
       ELSE req' = [req EXCEPT ![r] = [IdleReq EXCEPT
                       !.op = "enroll", !.pc = "save", !.exam = e,
                       !.user = studentId, !.loaded = exams[e],
                       !.dirty = {"enrolledStudents"}]]

\* exam.save() after a push on the array: a $push of the entry and an $inc
\* of __v on the stored document, whatever its version is by now.
enrollStudent_save(r) ==
    /\ Continue(r, "enroll", "save")
    /\ UNCHANGED sessions
    /\ \E ok \in Outcomes :
          IF ok
          THEN /\ exams' = [exams EXCEPT
                      ![req[r].exam].enrolledStudents = Append(@, req[r].user),
                      ![req[r].exam].version = @ + 1]
               /\ Reply(r, "enroll", 200)
          ELSE UNCHANGED exams /\ Reply(r, "enroll", 500)

\* --------------------------------------------------------- unenrollStudent
\* exam.enrolledStudents.filter(enrollment => !enrollment.student.equals(id))
Without(enrolledStudents, studentId) ==
    SelectSeq(enrolledStudents, LAMBDA u : u # studentId)

\* The filtered list is assigned to the loaded document.  When the filter
\* removed nothing, whether the assignment of an equal array marks the path
\* modified depends on the mongoose of the build.
unenrollStudent(r, e, studentId) ==
    /\ Receive(r, Request("unenroll", NULL, e, 0, studentId, NULL))
    /\ UNCHANGED <<exams, sessions>>
    /\ \E modified \in (IF isEnrolled(e, studentId) THEN {TRUE} ELSE BOOLEAN) :
          req' = [req EXCEPT ![r] = [IdleReq EXCEPT
                     !.op = "unenroll", !.pc = "save", !.exam = e,
                     !.user = studentId,
                     !.loaded = [exams[e] EXCEPT !.enrolledStudents =
                                    Without(@, studentId)],
                     !.dirty = IF modified THEN {"enrolledStudents"} ELSE {}]]

\* exam.save() after the array was assigned: a $set of the whole array and
\* an $inc of __v, on the document whose __v is still the one loaded; when
\* it is not, save throws a VersionError and nothing is written.
unenrollStudent_save(r) ==
    /\ Continue(r, "unenroll", "save")
    /\ UNCHANGED sessions
    /\ \E ok \in Outcomes :
          IF ~ok THEN UNCHANGED exams /\ Reply(r, "unenroll", 500)
          ELSE IF req[r].dirty = {}
          THEN UNCHANGED exams /\ Reply(r, "unenroll", 200)
          ELSE IF exams[req[r].exam].version # req[r].loaded.version
          THEN UNCHANGED exams /\ Reply(r, "unenroll", 500)
          ELSE /\ exams' = [exams EXCEPT
                      ![req[r].exam].enrolledStudents =
                          req[r].loaded.enrolledStudents,
                      ![req[r].exam].version = @ + 1]
               /\ Reply(r, "unenroll", 200)

\* ------------------------------------------------------------------ Next
Next ==
    \E r \in Requests :
        \/ \E u \in Users, e \in Exams : startMonitoringSession(r, u, e)
        \/ startMonitoringSession_findExisting(r)
        \/ startMonitoringSession_create(r)
        \/ startMonitoringSession_emit(r)
        \/ \E u \in Users, e \in Exams : joinExam(r, u, e)
        \/ joinExam_findExisting(r)
        \/ joinExam_create(r)
        \/ joinExam_emit(r)
        \/ \E u \in Users, sid \in SessionIds, sev \in ReportSeverities :
               reportViolation(r, u, sid, sev)
        \/ reportViolation_addViolation(r)
        \/ reportViolation_emit(r)
        \/ \E u \in Users, sid \in SessionIds, hasFace \in BOOLEAN,
              multipleFaces \in BOOLEAN, similarity \in Similarities :
               verifyFace(r, u, sid, hasFace, multipleFaces, similarity)
        \/ verifyFace_addViolation(r)
        \/ verifyFace_addFaceVerification(r)
        \/ verifyFace_emit(r)
        \/ \E u \in Users, sid \in SessionIds : endMonitoringSession(r, u, sid)
        \/ endMonitoringSession_save(r)
        \/ endMonitoringSession_emit(r)
        \/ \E u \in Users, sid \in SessionIds, status \in Statuses,
              reason \in Reasons : updateSessionStatus(r, u, sid, status, reason)
        \/ updateSessionStatus_save(r)
        \/ updateSessionStatus_emit(r)
        \/ \E u \in Users, e \in Exams : endExam(r, u, e)
        \/ endExam_save(r)
        \/ endExam_updateMany(r)
        \/ endExam_emit(r)

Spec == Init /\ [][Next]_vars

\* Requests that never overlap: a handler runs to its response before the
\* next request is received.
InitSerial ==
    /\ InitServer
    /\ InitExams
    /\ sessions = <<>>
    /\ run = [serial |-> TRUE, recording |-> FALSE, publishing |-> FALSE,
              faults |-> FALSE, budget |-> MaxRequests]
    /\ policy = NoPolicy

SpecSerial == InitSerial /\ [][Next]_vars

\* The four operations on one session, received while the database holds one
\* active session of student s1, with the requests recorded.
FirstSession == NewSession(1, "e1", "s1")

InitAtomic ==
    /\ InitServer
    /\ InitExams
    /\ sessions = <<FirstSession>>
    /\ run = [serial |-> FALSE, recording |-> TRUE, publishing |-> TRUE,
              faults |-> FALSE, budget |-> MaxRecorded]
    /\ policy = NoPolicy

NextSession ==
    \E r \in Requests :
        \/ \E u \in Users, sid \in SessionIds, sev \in ReportSeverities :
               reportViolation(r, u, sid, sev)
        \/ reportViolation_addViolation(r)
        \/ reportViolation_emit(r)
        \/ \E u \in Users, sid \in SessionIds, hasFace \in BOOLEAN,
              multipleFaces \in BOOLEAN, similarity \in Similarities :
               verifyFace(r, u, sid, hasFace, multipleFaces, similarity)
        \/ verifyFace_addViolation(r)
        \/ verifyFace_addFaceVerification(r)
        \/ verifyFace_emit(r)
        \/ \E u \in Users, sid \in SessionIds : endMonitoringSession(r, u, sid)
        \/ endMonitoringSession_save(r)
        \/ endMonitoringSession_emit(r)
        \/ \E u \in Users, sid \in SessionIds, status \in Statuses,
              reason \in Reasons : updateSessionStatus(r, u, sid, status, reason)
        \/ updateSessionStatus_save(r)
        \/ updateSessionStatus_emit(r)

SpecAtomic == InitAtomic /\ [][NextSession]_vars

\* The ledgers and the finalization: two students each have an active session
\* with one critical violation reported on it; each student reports
\* violations and verifies faces on their own session, and ends it.
WithCritical(session) ==
    [session EXCEPT !.violations = <<ReportedViolation("critical")>>]

InitFinalize ==
    /\ InitServer
    /\ exams = [e \in Exams |-> [status |-> "ongoing",
                                 enrolledStudents |-> <<"s1", "s2">>,
                                 version |-> 0]]
    /\ sessions = <<WithCritical(NewSession(1, "e1", "s1")),
                    WithCritical(NewSession(2, "e1", "s2"))>>
    /\ run = [serial |-> FALSE, recording |-> FALSE, publishing |-> FALSE,
              faults |-> FALSE, budget |-> MaxFinalize]
    /\ policy = NoPolicy

Owner(sid) == {sessions[sid].student}

NextFinalize ==
    \E r \in Requests :
        \/ \E sid \in 1..Len(sessions) :
               \E u \in Owner(sid), sev \in ReportSeverities :
                   reportViolation(r, u, sid, sev)
        \/ reportViolation_addViolation(r)
        \/ reportViolation_emit(r)
        \/ \E sid \in 1..Len(sessions) :
               \E u \in Owner(sid), hasFace \in BOOLEAN, multipleFaces \in BOOLEAN,
                  similarity \in Similarities :
                   verifyFace(r, u, sid, hasFace, multipleFaces, similarity)
        \/ verifyFace_addViolation(r)
        \/ verifyFace_addFaceVerification(r)
        \/ verifyFace_emit(r)
        \/ \E sid \in 1..Len(sessions) :
               \E u \in Owner(sid) : endMonitoringSession(r, u, sid)
        \/ endMonitoringSession_save(r)
        \/ endMonitoringSession_emit(r)

SpecFinalize == InitFinalize /\ [][NextFinalize]_vars

\* The six handlers that write sessions, with the events they emit kept, and
\* database writes and emits that may throw.
InitEvents ==
    /\ InitServer
    /\ InitExams
    /\ sessions = <<>>
    /\ run = [serial |-> FALSE, recording |-> FALSE, publishing |-> TRUE,
              faults |-> TRUE, budget |-> MaxPublished]
    /\ policy = NoPolicy

NextEvents ==
    \E r \in Requests :
        \/ \E u \in Users, e \in Exams : startMonitoringSession(r, u, e)
        \/ startMonitoringSession_findExisting(r)
        \/ startMonitoringSession_create(r)
        \/ startMonitoringSession_emit(r)
        \/ \E u \in Users, e \in Exams : joinExam(r, u, e)
        \/ joinExam_findExisting(r)
        \/ joinExam_create(r)
        \/ joinExam_emit(r)
        \/ \E u \in Users, sid \in SessionIds, sev \in ReportSeverities :
               reportViolation(r, u, sid, sev)
        \/ reportViolation_addViolation(r)
        \/ reportViolation_emit(r)
        \/ \E u \in Users, sid \in SessionIds, hasFace \in BOOLEAN,
              multipleFaces \in BOOLEAN, similarity \in Similarities :
               verifyFace(r, u, sid, hasFace, multipleFaces, similarity)
        \/ verifyFace_addViolation(r)
        \/ verifyFace_addFaceVerification(r)
        \/ verifyFace_emit(r)
        \/ \E u \in Users, sid \in SessionIds : endMonitoringSession(r, u, sid)
        \/ endMonitoringSession_save(r)
        \/ endMonitoringSession_emit(r)
        \/ \E u \in Users, sid \in SessionIds, status \in Statuses,
              reason \in Reasons : updateSessionStatus(r, u, sid, status, reason)
        \/ updateSessionStatus_save(r)
        \/ updateSessionStatus_emit(r)

SpecEvents == InitEvents /\ [][NextEvents]_vars

\* endExam alone, on two ongoing exams: exam e1 has an active session of s1
\* and a session of s2 in any status, exam e2 an active session of s1; the
\* writes and the emit of endExam may throw.
EndedExams == {"e1", "e2"}

InitEndExam ==
    /\ InitServer
    /\ exams = [e \in EndedExams |-> [status |-> "ongoing",
                                      enrolledStudents |-> <<"s1", "s2">>,
                                      version |-> 0]]
    /\ \E status \in Statuses :
          sessions = <<NewSession(1, "e1", "s1"),
                       UpdateDoc(NewSession(2, "e1", "s2"), status, "reason"),
                       NewSession(3, "e2", "s1")>>
    /\ run = [serial |-> FALSE, recording |-> FALSE, publishing |-> FALSE,
              faults |-> TRUE, budget |-> MaxEnded]
    /\ policy = NoPolicy

NextEndExam ==
    \E r \in Requests :
        \/ \E u \in Users, e \in EndedExams : endExam(r, u, e)
        \/ endExam_save(r)
        \/ endExam_updateMany(r)
        \/ endExam_emit(r)

SpecEndExam == InitEndExam /\ [][NextEndExam]_vars

\* Enrolment and entry: an admin enrols and unenrols users in the ongoing
\* exam while students start and join sessions of it.
InitEnroll ==
    /\ InitServer
    /\ InitExams
    /\ sessions = <<>>
    /\ run = [serial |-> FALSE, recording |-> FALSE, publishing |-> FALSE,
              faults |-> FALSE, budget |-> MaxEnrolled]
    /\ policy = NoPolicy

NextEnroll ==
    \E r \in Requests :
        \/ \E e \in Exams, studentId \in Users : enrollStudent(r, e, studentId)
        \/ enrollStudent_save(r)
        \/ \E e \in Exams, studentId \in Users : unenrollStudent(r, e, studentId)
        \/ unenrollStudent_save(r)
        \/ \E u \in Users, e \in Exams : startMonitoringSession(r, u, e)
        \/ startMonitoringSession_findExisting(r)
        \/ startMonitoringSession_create(r)
        \/ startMonitoringSession_emit(r)
        \/ \E u \in Users, e \in Exams : joinExam(r, u, e)
        \/ joinExam_findExisting(r)
        \/ joinExam_create(r)
        \/ joinExam_emit(r)

SpecEnroll == InitEnroll /\ [][NextEnroll]_vars

\* The recommendation policy alone, applied to every risk score.
InitPolicy ==
    /\ InitServer
    /\ InitExams
    /\ sessions = <<>>
    /\ run = [serial |-> FALSE, recording |-> FALSE, publishing |-> FALSE,
              faults |-> FALSE, budget |-> 0]
    /\ policy \in [riskScore : 0..MaxRiskScore, recommendation : {NULL}]

Recommend ==
    /\ policy.recommendation = NULL
    /\ policy' = [policy EXCEPT !.recommendation = Recommendation(policy.riskScore)]
    /\ UNCHANGED <<exams, sessions, req, nreq, run, hist, events,
                   attendance, calls, recon>>

SpecPolicy == InitPolicy /\ [][Recommend]_vars

\* ------------------------------------------------- name reconciliation
\* Strings are sequences of characters over a small alphabet.
Alphabet == {"a", "A", " "}

Labels == UNION {[1..n -> Alphabet] : n \in 0..MaxLabel}

\* User.firstName and User.lastName (required, trimmed by the schema).
firstName(u) == <<"A">>

lastName(u) == IF u = "s1" THEN <<"a">> ELSE <<"a", "a">>

\* `${record.student.firstName} ${record.student.lastName}`
fullName(u) == firstName(u) \o <<" ">> \o lastName(u)

\* String.prototype.toLowerCase
Lower(c) == IF c = "A" THEN "a" ELSE c

toLowerCase(str) == [i \in 1..Len(str) |-> Lower(str[i])]

\* String.prototype.trim
RECURSIVE trimStart(_)
trimStart(str) ==
    IF str # <<>> /\ Head(str) = " " THEN trimStart(Tail(str)) ELSE str

RECURSIVE trimEnd(_)
trimEnd(str) ==
    IF str # <<>> /\ str[Len(str)] = " "
    THEN trimEnd(SubSeq(str, 1, Len(str) - 1))
    ELSE str

trim(str) == trimEnd(trimStart(str))

\* String.prototype.includes
includes(str, sub) ==
    \E i \in 0..(Len(str) - Len(sub)) : SubSeq(str, i + 1, i + Len(sub)) = sub

\* const normalize = (str) => str.toLowerCase().trim()
normalize(str) == trim(toLowerCase(str))

\* The test of verifyAttendanceWithAI and verifyAttendanceWithPhotos.
Ungated(name, aiName) ==
    \/ normalize(name) = normalize(aiName)
    \/ includes(normalize(name), normalize(aiName))
    \/ includes(normalize(aiName), normalize(name))

\* The test of hybridAttendanceVerification: the lengths compared with 2 are
\* those of the strings as received.
Gated(name, aiName) ==
    \/ normalize(name) = normalize(aiName)
    \/ includes(normalize(name), normalize(aiName)) /\ Len(aiName) > 2
    \/ includes(normalize(aiName), normalize(name)) /\ Len(name) > 2

Matches(name, aiName, gated) ==
    IF gated THEN Gated(name, aiName) ELSE Ungated(name, aiName)

\* The loop without its break: the last satisfying record wins.
RECURSIVE LoopMatch_NoBreak(_, _, _, _)
LoopMatch_NoBreak(roster, aiName, gated, i) ==
    IF i > Len(roster) THEN 0
    ELSE LET later == LoopMatch_NoBreak(roster, aiName, gated, i + 1)
         IN IF later # 0 THEN later
            ELSE IF Matches(fullName(roster[i]), aiName, gated) THEN i ELSE 0

\* for (const record of attendanceRecords) { if (...) { ...; break; } }, from
\* record i on: the index of the record matched, 0 when the loop ends
\* without a match.  roster is the sequence of the records' students.
RECURSIVE LoopMatch(_, _, _, _)
LoopMatch(roster, aiName, gated, i) ==
    IF i > Len(roster) THEN 0
    ELSE IF Matches(fullName(roster[i]), aiName, gated) THEN i
    ELSE LoopMatch(roster, aiName, gated, i + 1)

\* A find that tests equality only.
ArrayFind_Exact(roster, aiName) ==
    LET found == {i \in 1..Len(roster) :
                     normalize(fullName(roster[i])) = normalize(aiName)}
    IN IF found = {} THEN 0
       ELSE CHOOSE i \in found : \A j \in found : i <= j

\* attendanceRecords.find((record) => ...): the first record satisfying
\* the test, 0 for undefined.
ArrayFind(roster, aiName) ==
    LET found == {i \in 1..Len(roster) : Ungated(fullName(roster[i]), aiName)}
    IN IF found = {} THEN 0
       ELSE CHOOSE i \in found : \A j \in found : i <= j

\* The record a variant matches a label to, and the status of its verdict.
MatchOf(variant, roster, aiName) ==
    IF variant = "photos" THEN ArrayFind(roster, aiName)
    ELSE LoopMatch(roster, aiName, variant = "hybrid", 1)

StatusOf(variant, matched) ==
    IF matched # 0
    THEN (IF variant = "ai" THEN "Matched" ELSE "Verified")
    ELSE (IF variant = "hybrid" THEN "No match" ELSE "Not Found")

MatchedStatuses == {"Matched", "Verified"}
NotFoundStatuses == {"Not Found", "No match"}

Rosters == {<<>>, <<"s1">>, <<"s2">>, <<"s1", "s2">>, <<"s2", "s1">>}

Variants == {"ai", "photos", "hybrid"}

\* ------------------------------------------------------------ attendance
\* User.find({ role: 'student', isActive: true }), in natural order.
isActive(u) == TRUE

ActiveStudents == SelectSeq(<<"s1", "s2">>,
                            LAMBDA u : role(u) = "student" /\ isActive(u))

\* req.body.sessionId and req.body.attendanceDate: both there, or one of
\* them absent.  new Date(string) is the day the string denotes (0 for
\* none), and two strings may denote the same day.
DateStrings == {"d1", "d1T00:00", "d2"}

Keyed == ([sessionId : {"k1"}, attendanceDate : DateStrings]
          \cup {[sessionId |-> NULL, attendanceDate |-> "d1"],
                [sessionId |-> "k1", attendanceDate |-> NULL]})

ParseDate(str) == IF str \in {"d1", "d1T00:00"} THEN 1
                  ELSE IF str = "d2" THEN 2 ELSE 0

\* The labels a vision pipeline reports: the name of s1 (contained in the
\* name of s2), a part of the name of s2 only, and a name nobody has.
ReportedLabels == {<<"A", " ", "a">>, <<"a", "a">>, <<"a", "A", "a">>}

Batches == UNION {[1..n -> ReportedLabels] : n \in 0..MaxBatch}

\* req.body.presentStudentIds
IdLists == {<<>>, <<"s1">>, <<"s2">>, <<"s1", "s2">>}

\* A document created with the mark Present.
NewAttendance_Marked(u, date) ==
    [student |-> u, attendanceDate |-> date, attendanceMark |-> "Present",
     markedAt |-> 0]

\* A created Attendance document: the schema has no sessionId path, so the
\* sessionId of the inserted object is not stored.
NewAttendance(u, date) ==
    [student |-> u, attendanceDate |-> date, attendanceMark |-> "Absent",
     markedAt |-> 0]

\* Whether a stored document matches { sessionId, attendanceDate: date }:
\* with strictQuery the sessionId condition is stripped from the filter,
\* without it the condition is sent and no stored document satisfies it.
QueryMatches(doc, date) ==
    attendance.strictQuery /\ doc.attendanceDate = date

\* Attendance.find({ sessionId, attendanceDate }), in natural order.
Find(date) == SelectSeq(attendance.records, LAMBDA doc : QueryMatches(doc, date))

RosterOf(found) == [i \in 1..Len(found) |-> found[i].student]

CountMark(found, mark) ==
    Len(SelectSeq(found, LAMBDA doc : doc.attendanceMark = mark))

\* The update that sets the mark and leaves markedAt as it was.
MarkPresent_Unstamped(date, ids) ==
    [i \in 1..Len(attendance.records) |->
        LET doc == attendance.records[i]
        IN IF /\ QueryMatches(doc, date)
              /\ doc.student \in Range(ids)
              /\ doc.attendanceMark = "Absent"
           THEN [doc EXCEPT !.attendanceMark = "Present"]
           ELSE doc]

\* The update without the attendanceMark condition in its filter.
MarkPresent_Unfiltered(date, ids) ==
    [i \in 1..Len(attendance.records) |->
        LET doc == attendance.records[i]
        IN IF QueryMatches(doc, date) /\ doc.student \in Range(ids)
           THEN [doc EXCEPT !.attendanceMark = "Present",
                            !.markedAt = attendance.now]
           ELSE doc]

\* Attendance.updateMany({ sessionId, attendanceDate, student: { $in: ids },
\* attendanceMark: "Absent" }, { $set: { attendanceMark: "Present",
\* markedAt: new Date() } }): the collection after the update.
MarkPresent(date, ids) ==
    [i \in 1..Len(attendance.records) |->
        LET doc == attendance.records[i]
        IN IF /\ QueryMatches(doc, date)
              /\ doc.student \in Range(ids)
              /\ doc.attendanceMark = "Absent"
           THEN [doc EXCEPT !.attendanceMark = "Present",
                            !.markedAt = attendance.now]
           ELSE doc]

\* updateResult.modifiedCount
ModifiedCount(after) ==
    Cardinality({i \in 1..Len(after) : after[i] # attendance.records[i]})

\* The unique indexes of the schema: student alone (unique: true on the
\* path) and (student, attendanceDate).
Duplicate(u, date) ==
    \E i \in 1..Len(attendance.records) :
        \/ attendance.records[i].student = u
        \/ /\ attendance.records[i].student = u
           /\ attendance.records[i].attendanceDate = date

\* Attendance.insertMany(attendanceRecords, { ordered: false }): every
\* document that violates no unique index is inserted.
Inserted(students, date) ==
    LET fresh == SelectSeq(students, LAMBDA u : ~Duplicate(u, date))
    IN [i \in 1..Len(fresh) |-> NewAttendance(fresh[i], date)]

\* The response of an attendance handler: the status code and the data.
Answer(r, o, c, data) ==
    /\ Reply(r, o, c)
    /\ calls' = [calls EXCEPT ![r] = data]

\* An attendance handler goes on to its next await.
Await(r, o, at, locals) ==
    /\ req' = [req EXCEPT ![r] = [IdleReq EXCEPT !.op = o, !.pc = at]]
    /\ calls' = [calls EXCEPT ![r] = locals]

\* ------------------------------------------- createInitialAttendance
createInitialAttendance(r, sessionId, attendanceDate) ==
    /\ Arrive(r, Request("create", NULL, NULL, 0, sessionId, attendanceDate))
    /\ UNCHANGED <<exams, sessions, attendance, recon>>
    /\ IF sessionId = NULL \/ attendanceDate = NULL
       THEN Answer(r, "create", 400, NoCall)
       ELSE IF Len(ActiveStudents) = 0
       THEN Answer(r, "create", 404, NoCall)
       ELSE Await(r, "create", "insertMany",
                  [NoCall EXCEPT !.date = ParseDate(attendanceDate)])

\* insertMany returns (201), fails on a duplicate key after inserting the
\* other documents (409), or throws something else (500).
createInitialAttendance_insertMany(r) ==
    /\ Proceed(r, "create", "insertMany")
    /\ UNCHANGED <<exams, sessions, events, recon>>
    /\ \E ok \in Outcomes :
          IF ok
          THEN LET new == Inserted(ActiveStudents, calls[r].date)
               IN /\ attendance' = [attendance EXCEPT !.records = @ \o new]
                  /\ IF Len(new) = Len(ActiveStudents)
                     THEN Answer(r, "create", 201,
                                 [calls[r] EXCEPT !.updated = Len(new)])
                     ELSE Answer(r, "create", 409, calls[r])
          ELSE UNCHANGED attendance /\ Answer(r, "create", 500, calls[r])

\* ----------------------------------------------- updateAttendanceByAI
updateAttendanceByAI(r, sessionId, attendanceDate, presentStudentIds) ==
    /\ Arrive(r, Request("mark", NULL, NULL, 0, sessionId, attendanceDate))
    /\ UNCHANGED <<exams, sessions, attendance, recon>>
    /\ IF sessionId = NULL \/ attendanceDate = NULL \/ Len(presentStudentIds) = 0
       THEN Answer(r, "mark", 400, NoCall)
       ELSE Await(r, "mark", "updateMany",
                  [NoCall EXCEPT !.date = ParseDate(attendanceDate),
                                 !.ids = presentStudentIds])

\* The update is applied and the handler answers 200 with modifiedCount.
updateAttendanceByAI_updateMany(r) ==
    /\ Proceed(r, "mark", "updateMany")
    /\ UNCHANGED <<exams, sessions, events, recon>>
    /\ \E ok \in Outcomes :
          IF ok
          THEN LET after == MarkPresent(calls[r].date, calls[r].ids)
               IN /\ attendance' = [attendance EXCEPT !.records = after,
                                                      !.now = @ + 1]
                  /\ Answer(r, "mark", 200,
                            [calls[r] EXCEPT !.updated = ModifiedCount(after)])
          ELSE UNCHANGED attendance /\ Answer(r, "mark", 500, calls[r])

\* ------------------------------------------------ reconciliation passes
\* A verdict of matchLog, matchDetails or verificationLog; matched is the
\* full name of the record matched, the empty string for none.
Verdict(variant, roster, aiName) ==
    LET m == MatchOf(variant, roster, aiName)
    IN [detected |-> aiName,
        matched |-> IF m # 0 THEN fullName(roster[m]) ELSE <<>>,
        status |-> StatusOf(variant, m)]

\* The loop that pushes a verdict for a matched label only.
RECURSIVE Reconcile_MatchedOnly(_, _, _, _)
Reconcile_MatchedOnly(variant, roster, labels, acc) ==
    IF labels = <<>> THEN acc
    ELSE LET aiName == Head(labels)
             m == MatchOf(variant, roster, aiName)
         IN Reconcile_MatchedOnly(variant, roster, Tail(labels),
                [log |-> IF m # 0
                         THEN Append(acc.log, Verdict(variant, roster, aiName))
                         ELSE acc.log,
                 ids |-> IF m # 0 THEN Append(acc.ids, roster[m]) ELSE acc.ids])

\* for (const aiName of labels) { ... }: each label pushes one verdict, and
\* a matched label pushes the student of the record on presentStudentIds.
RECURSIVE Reconcile(_, _, _, _)
Reconcile(variant, roster, labels, acc) ==
    IF labels = <<>> THEN acc
    ELSE LET aiName == Head(labels)
             m == MatchOf(variant, roster, aiName)
         IN Reconcile(variant, roster, Tail(labels),
                [log |-> Append(acc.log, Verdict(variant, roster, aiName)),
                 ids |-> IF m # 0 THEN Append(acc.ids, roster[m]) ELSE acc.ids])

\* The locals of a pass after its loop.
Pass(variant, date, labels) ==
    LET out == Reconcile(variant, RosterOf(Find(date)), labels,
                         [log |-> <<>>, ids |-> <<>>])
    IN [NoCall EXCEPT !.date = date, !.ids = out.ids]

\* The reconciliation engine alone: one label of any spelling, or a batch of
\* reported labels, matched against a roster by each of the three variants;
\* the attendance holds one Absent record per student of the roster.
InitMatch ==
    /\ req = [r \in Requests |-> IdleReq]
    /\ nreq = 0
    /\ hist = <<>>
    /\ events = <<>>
    /\ InitExams
    /\ sessions = <<>>
    /\ run = [serial |-> FALSE, recording |-> FALSE, publishing |-> FALSE,
              faults |-> FALSE, budget |-> 0]
    /\ policy = NoPolicy
    /\ calls = [r \in Requests |-> NoCall]
    /\ recon \in [variant : {NULL}, roster : Rosters, label : Labels,
                   matched : {0}, status : {NULL},
                   labels : {<<>>}, log : {<<>>}, ids : {<<>>}]
                 \cup
                 [variant : {NULL}, roster : Rosters, label : {<<>>},
                  matched : {0}, status : {NULL},
                  labels : Batches \ {<<>>}, log : {<<>>}, ids : {<<>>}]
    /\ attendance = [NoAttendance EXCEPT !.records =
                        [i \in 1..Len(recon.roster) |->
                            NewAttendance(recon.roster[i], 1)]]

\* One label matched.
Match(variant) ==
    /\ recon.variant = NULL
    /\ recon.labels = <<>>
    /\ LET matched == MatchOf(variant, recon.roster, recon.label)
       IN recon' = [recon EXCEPT !.variant = variant, !.matched = matched,
                                 !.status = StatusOf(variant, matched)]
    /\ UNCHANGED <<exams, sessions, req, nreq, run, hist, events, policy,
                   attendance, calls>>

\* A batch reconciled and the students matched marked.
ReconcileBatch(variant) ==
    /\ recon.variant = NULL
    /\ recon.labels # <<>>
    /\ LET out == Reconcile(variant, recon.roster, recon.labels,
                            [log |-> <<>>, ids |-> <<>>])
       IN /\ recon' = [recon EXCEPT !.variant = variant, !.log = out.log,
                                    !.ids = out.ids]
          /\ attendance' = [attendance EXCEPT
                                !.records = MarkPresent(1, out.ids),
                                !.now = @ + 1]
    /\ UNCHANGED <<exams, sessions, req, nreq, run, hist, events, policy,
                   calls>>

NextMatch ==
    \/ \E variant \in Variants : Match(variant)
    \/ \E variant \in Variants : ReconcileBatch(variant)

SpecMatch == InitMatch /\ [][NextMatch]_vars

\* The bulk update of a pass.
Verify_updateMany(r, o) ==
    /\ Proceed(r, o, "updateMany")
    /\ UNCHANGED <<exams, sessions, events, recon>>
    /\ \E ok \in Outcomes :
          IF ok
          THEN LET after == MarkPresent(calls[r].date, calls[r].ids)
               IN /\ attendance' = [attendance EXCEPT !.records = after,
                                                      !.now = @ + 1]
                  /\ Await(r, o, "summary",
                           [calls[r] EXCEPT !.updated = ModifiedCount(after)])
          ELSE UNCHANGED attendance /\ Answer(r, o, 500, calls[r])

\* The summary counted on the records found before the update.
Verify_summary_Stale(r, o) ==
    /\ Proceed(r, o, "summary")
    /\ UNCHANGED <<exams, sessions, events, recon, attendance>>
    /\ LET finalRecords == Find(calls[r].date)
       IN Answer(r, o, 200,
                 [calls[r] EXCEPT
                     !.present = CountMark(finalRecords, "Present")
                                    - calls[r].updated,
                     !.absent = CountMark(finalRecords, "Absent")
                                    + calls[r].updated,
                     !.total = Len(finalRecords)])

\* The final find of a pass and its response: the summary is counted on the
\* records found after the update.
Verify_summary(r, o) ==
    /\ Proceed(r, o, "summary")
    /\ UNCHANGED <<exams, sessions, events, recon, attendance>>
    /\ LET finalRecords == Find(calls[r].date)
       IN Answer(r, o, 200,
                 [calls[r] EXCEPT
                     !.present = CountMark(finalRecords, "Present"),
                     !.absent = CountMark(finalRecords, "Absent"),
                     !.total = Len(finalRecords)])

verifyAttendanceWithAI(r, sessionId, attendanceDate, aiDetectedStudents) ==
    /\ Arrive(r, Request("ai", NULL, NULL, 0, sessionId, attendanceDate))
    /\ UNCHANGED <<exams, sessions, attendance, recon>>
    /\ IF sessionId = NULL \/ attendanceDate = NULL
       THEN Answer(r, "ai", 400, NoCall)
       ELSE IF Len(aiDetectedStudents) = 0
       THEN Answer(r, "ai", 400, NoCall)
       ELSE IF Len(Find(ParseDate(attendanceDate))) = 0
       THEN Answer(r, "ai", 404, NoCall)
       ELSE Await(r, "ai", "updateMany",
                  Pass("ai", ParseDate(attendanceDate), aiDetectedStudents))


\* fetched: whether axios.get(aiReportUrl) returned the report;
\* labels is aiReport.present_students || [].
verifyAttendanceWithPhotos(r, sessionId, attendanceDate, fetched, labels) ==
    /\ Arrive(r, Request("photos", NULL, NULL, 0, sessionId, attendanceDate))
    /\ UNCHANGED <<exams, sessions, attendance, recon>>
    /\ IF sessionId = NULL \/ attendanceDate = NULL
       THEN Answer(r, "photos", 400, NoCall)
       ELSE IF ~fetched
       THEN Answer(r, "photos", 400, NoCall)
       ELSE IF Len(labels) = 0
       THEN Answer(r, "photos", 200, NoCall)
       ELSE Await(r, "photos", "updateMany",
                  Pass("photos", ParseDate(attendanceDate), labels))


\* hasReport: whether req.body.aiReport is there; labels is
\* aiReport.present_students || [].
hybridAttendanceVerification(r, sessionId, attendanceDate, hasReport, labels) ==
    /\ Arrive(r, Request("hybrid", NULL, NULL, 0, sessionId, attendanceDate))
    /\ UNCHANGED <<exams, sessions, attendance, recon>>
    /\ IF sessionId = NULL \/ attendanceDate = NULL \/ ~hasReport
       THEN Answer(r, "hybrid", 400, NoCall)
       ELSE IF Len(labels) = 0
       THEN Answer(r, "hybrid", 200, NoCall)
       ELSE IF Len(Find(ParseDate(attendanceDate))) = 0
       THEN Answer(r, "hybrid", 404, NoCall)
       ELSE Await(r, "hybrid", "updateMany",
                  Pass("hybrid", ParseDate(attendanceDate), labels))


\* The collection after createInitialAttendance succeeded for a date.
Initialized(date) ==
    [i \in 1..Len(ActiveStudents) |-> NewAttendance(ActiveStudents[i], date)]

\* The attendance routes, on an empty collection, on one initialized for day
\* 1, or on one initialized for day 1 while s1 was the only active student,
\* under either mongoose.
InitAttendance ==
    /\ req = [r \in Requests |-> IdleReq]
    /\ nreq = 0
    /\ hist = <<>>
    /\ events = <<>>
    /\ InitExams
    /\ sessions = <<>>
    /\ run = [serial |-> FALSE, recording |-> FALSE, publishing |-> FALSE,
              faults |-> FALSE, budget |-> MaxMarked]
    /\ policy = NoPolicy
    /\ attendance \in [records : {<<>>, Initialized(1),
                                   <<NewAttendance("s1", 1)>>},
                        now : {1}, strictQuery : BOOLEAN]
    /\ calls = [r \in Requests |-> NoCall]
    /\ recon = NoRecon

\* presentStudentIds, aiDetectedStudents and present_students are sent with
\* a complete body, or are the absent part of one.
NextAttendance ==
    \E r \in Requests :
        \/ \E b \in Keyed :
               createInitialAttendance(r, b.sessionId, b.attendanceDate)
        \/ createInitialAttendance_insertMany(r)
        \/ \E b \in Keyed, ids \in IdLists :
               /\ (b.sessionId = NULL \/ b.attendanceDate = NULL) => ids = <<>>
               /\ updateAttendanceByAI(r, b.sessionId, b.attendanceDate, ids)
        \/ updateAttendanceByAI_updateMany(r)
        \/ \E b \in Keyed, labels \in Batches :
               /\ (b.sessionId = NULL \/ b.attendanceDate = NULL) => labels = <<>>
               /\ verifyAttendanceWithAI(r, b.sessionId, b.attendanceDate, labels)
        \/ \E variant \in Variants : Verify_updateMany(r, variant)
        \/ \E variant \in Variants : Verify_summary(r, variant)
        \/ \E b \in Keyed, fetched \in BOOLEAN, labels \in Batches :
               /\ (b.sessionId = NULL \/ b.attendanceDate = NULL \/ ~fetched)
                      => labels = <<>>
               /\ verifyAttendanceWithPhotos(r, b.sessionId, b.attendanceDate,
                                             fetched, labels)
        \/ \E b \in Keyed, hasReport \in BOOLEAN, labels \in Batches :
               /\ (b.sessionId = NULL \/ b.attendanceDate = NULL \/ ~hasReport)
                      => labels = <<>>
               /\ hybridAttendanceVerification(r, b.sessionId, b.attendanceDate,
                                               hasReport, labels)

SpecAttendance == InitAttendance /\ [][NextAttendance]_vars

\* What a handler does to session s when nothing runs between its steps.
Atomic(s, q) ==
    IF q.sid # s.sessionId THEN s
    ELSE CASE q.op = "report" ->
                IF OwnerOrSupervisor(s, q.user)
                THEN [s EXCEPT !.violations = Append(@, ReportedViolation(q.a))]
                ELSE s
           [] q.op = "verify" ->
                IF s.student # q.user THEN s
                ELSE LET v == CorrelatedViolation(q.a)
                         s1 == IF v # NoViolation
                               THEN [s EXCEPT !.violations = Append(@, v)] ELSE s
                     IN [s1 EXCEPT !.faceVerifications = Append(@, [result |-> q.a])]
           [] q.op = "end" ->
                IF s.student = q.user /\ s.status \notin {"completed", "terminated"}
                THEN EndDoc(s) ELSE s
           [] q.op = "update" ->
                IF OwnerOrSupervisor(s, q.user) THEN UpdateDoc(s, q.a, q.b) ELSE s
           [] OTHER -> s

\* The sessions that the serial orders of the recorded requests Q lead to.
RECURSIVE SerialOutcomes(_, _)
SerialOutcomes(s, Q) ==
    IF Q = {} THEN {s}
    ELSE UNION {SerialOutcomes(Atomic(s, hist[i]), Q \ {i}) : i \in Q}

Quiescent == \A r \in Requests : Free(r)

\* ================================================================ claims
SessionIndexes == 1..Len(sessions)

\* A StartOrResume request that was answered with a session.
Joined(r) ==
    /\ req[r].pc = "done"
    /\ req[r].op \in {"start", "join"}
    /\ req[r].code \in {200, 201}

\* A session that has been live ever since it was created: every transition to
\* completed or terminated sets endTime, and nothing clears it.
NeverEnded(i) == sessions[i].status \in Live /\ sessions[i].endTime = NULL

\* C1: two StartOrResume requests for the same (student, exam), both answered
\* with a session while no session of the pair was ended in between, are
\* answered with the same session: one session was created for the two.
C1_IdempotentResume ==
    \A r1, r2 \in Requests :
        (/\ Joined(r1) /\ Joined(r2)
         /\ req[r1].user = req[r2].user /\ req[r1].exam = req[r2].exam
         /\ NeverEnded(req[r1].out) /\ NeverEnded(req[r2].out))
        => req[r1].out = req[r2].out

\* C2: every (student, exam) pair has at most one session that is active or
\* paused.
C2_AtMostOneLiveSession ==
    \A e \in Exams, u \in Students : Cardinality(LiveSessionsOf(e, u)) <= 1

\* C3: once a session is completed or terminated, no request appends to its
\* violations or faceVerifications ledger.
C3_TerminalLedgersFrozen ==
    [][\A i \in SessionIndexes :
          sessions[i].status \in Terminal =>
              /\ sessions'[i].violations = sessions[i].violations
              /\ sessions'[i].faceVerifications = sessions[i].faceVerifications]_vars

\* C4: the status of a session changes only while the session is active or
\* paused; a completed or terminated session keeps its status.
C4_TerminalStatusFinal ==
    [][\A i \in SessionIndexes :
          sessions'[i].status # sessions[i].status => sessions[i].status \in Live]_vars

\* C5: a finalReport, once stored, is never replaced by a different one.
C5_FinalReportWrittenOnce ==
    [][\A i \in SessionIndexes :
          sessions[i].finalReport # NoReport =>
              sessions'[i].finalReport = sessions[i].finalReport]_vars

\* C6: every session whose status is completed or terminated has a finalReport.
C6_TerminalHasFinalReport ==
    \A i \in SessionIndexes :
        sessions[i].status \in Terminal => sessions[i].finalReport # NoReport

\* C7: when every request on a session has been answered, the stored session
\* is the result of some serial order of the requests received.
C7_SessionOpsSerializable ==
    (run.recording /\ Quiescent) =>
        sessions[1] \in SerialOutcomes(FirstSession, 1..Len(hist))


\* C8: for any riskScore in 0..100 the recommendation is "reject" when the
\* score is above 70, "review" when it is above 40 and at most 70, and
\* "accept" otherwise.
C8_RecommendationThresholds ==
    policy.recommendation # NULL =>
        /\ policy.riskScore \in 0..100
        /\ policy.riskScore > 70 => policy.recommendation = "reject"
        /\ (policy.riskScore > 40 /\ policy.riskScore <= 70)
              => policy.recommendation = "review"
        /\ policy.riskScore <= 40 => policy.recommendation = "accept"

C8_Witness == policy.riskScore = 70 /\ policy.recommendation = "review"

Criticals(violations) ==
    {k \in 1..Len(violations) : violations[k].severity = "critical"}

\* The finalReport of session i was computed from the violations it has now.
FinalizedAsIs(i) ==
    /\ sessions[i].finalReport # NoReport
    /\ sessions[i].finalReport.totalViolations = Len(sessions[i].violations)

\* C9: a session finalized with two critical violations reported on it has a
\* finalReport whose riskScore is at least 70 and whose recommendation is
\* "reject".
C9_TwoCriticalsReject ==
    \A i \in SessionIndexes :
        (FinalizedAsIs(i) /\ Cardinality(Criticals(sessions[i].violations)) >= 2)
            => /\ sessions[i].finalReport.riskScore >= 70
               /\ sessions[i].finalReport.recommendation = "reject"

C9_Witness ==
    \E i \in SessionIndexes :
        /\ sessions[i].status = "completed"
        /\ FinalizedAsIs(i)
        /\ Len(sessions[i].violations) = 2
        /\ Cardinality(Criticals(sessions[i].violations)) = 2
        /\ sessions[i].finalReport.recommendation = "reject"

\* Request r has computed a finalReport from the ledgers it loaded.
Finalizing(r) == req[r].op = "end" /\ req[r].pc = "save"

SameLedgers(r1, r2) ==
    /\ req[r1].doc.violations = req[r2].doc.violations
    /\ req[r1].doc.faceVerifications = req[r2].doc.faceVerifications

IsPrefix(s, t) == Len(s) <= Len(t) /\ SubSeq(t, 1, Len(s)) = s

\* C11: in every step every session is still there and each of its two ledgers
\* still begins with the entries it had: a ledger never gets shorter and an
\* entry once appended is never edited or removed.
C11_LedgersAppendOnly ==
    [][\A i \in SessionIndexes :
          /\ i <= Len(sessions')
          /\ IsPrefix(sessions[i].violations, sessions'[i].violations)
          /\ IsPrefix(sessions[i].faceVerifications, sessions'[i].faceVerifications)]_vars

C11_Witness ==
    \E i \in SessionIndexes :
        /\ sessions[i].status \in Terminal
        /\ sessions[i].finalReport # NoReport
        /\ Len(sessions[i].violations) >= 1
        /\ Len(sessions[i].faceVerifications) >= 1

\* The severities of the violations reported on a session, in ledger order, and
\* the results of its verifications.
ReportedSeverities(violations) ==
    LET reported == SelectSeq(violations, LAMBDA v : v.type = "tab_switch")
    IN [k \in 1..Len(reported) |-> reported[k].severity]

RecordedResults(verifications) ==
    [k \in 1..Len(verifications) |-> verifications[k].result]

\* What the accepted requests of kind o on session s carried, in the order the
\* requests were received.
Submitted(o, s) ==
    LET accepted == SelectSeq(hist, LAMBDA q :
                        /\ q.op = o
                        /\ q.sid = s.sessionId
                        /\ IF o = "report" THEN OwnerOrSupervisor(s, q.user)
                           ELSE q.user = s.student)
    IN [k \in 1..Len(accepted) |-> accepted[k].a]

\* C12: once the recorded requests on the session have all returned, its
\* violations ledger holds the reported violations in the order their requests
\* were received, and its verifications ledger likewise.
C12_LedgersInSubmissionOrder ==
    (run.recording /\ Quiescent) =>
        /\ ReportedSeverities(sessions[1].violations) = Submitted("report", sessions[1])
        /\ RecordedResults(sessions[1].faceVerifications) = Submitted("verify", sessions[1])

\* Request r takes the step that follows its committed write: the emit and the
\* response.
Publishes(r) == req[r].pc = "emit" /\ req'[r].pc # "emit"

\* C13: the step in which a handler emits its event, or in which the emit
\* throws, leaves every session and every exam as the committed write left
\* them.
C13_PublishNeverRollsBack ==
    [][\A r \in Requests : Publishes(r) => sessions' = sessions /\ exams' = exams]_vars

\* A session was created, the emit of its creation threw and the request was
\* answered 500: the session is still there and no event went out.
C13_Witness ==
    /\ Quiescent
    /\ events = <<>>
    /\ Len(sessions) >= 1
    /\ \E r \in Requests : req[r].op \in {"start", "join"} /\ req[r].code = 500

RECURSIVE IsSubsequence(_, _)
IsSubsequence(s, t) ==
    IF s = <<>> THEN TRUE
    ELSE IF t = <<>> THEN FALSE
    ELSE IF Head(s) = Head(t) THEN IsSubsequence(Tail(s), Tail(t))
    ELSE IsSubsequence(s, Tail(t))

\* The severities carried by the violationReported events of session sid, in
\* the order the events went out.
PublishedSeverities(sid) ==
    LET published == SelectSeq(events, LAMBDA e :
                         e.name = "violationReported" /\ e.sid = sid)
    IN [k \in 1..Len(published) |-> published[k].a]

\* C14: the violationReported events of a session go out in the order in which
\* the violations were appended to its ledger.
C14_EventsInCommitOrder ==
    run.publishing =>
        IsSubsequence(PublishedSeverities(1),
                      ReportedSeverities(sessions[1].violations))

\* Student u may start or resume a session of exam e.
Eligible(u, e) ==
    /\ exams[e].status = "ongoing"
    /\ \E k \in 1..Len(exams[e].enrolledStudents) : exams[e].enrolledStudents[k] = u

\* C15: a StartOrResume request received while the exam is not ongoing or the
\* student is not enrolled is rejected, creates no session and publishes no
\* event; and whenever a session is created, its exam is ongoing and its
\* student is enrolled in it.
C15_StartOnlyWhenEligible ==
    [][/\ \A r \in Requests, u \in Students, e \in Exams :
             ((startMonitoringSession(r, u, e) \/ joinExam(r, u, e))
                 /\ ~Eligible(u, e))
             => /\ req'[r].pc = "done"
                /\ req'[r].code \in {400, 403}
                /\ sessions' = sessions
                /\ events' = events
       /\ Len(sessions') > Len(sessions)
             => Eligible(sessions'[Len(sessions')].student,
                         sessions'[Len(sessions')].exam)]_vars

\* Request r has looked for a live session of its (student, exam) and goes on.
Looked(r) == req[r].pc = "findExisting" /\ req'[r] # req[r]

Announced(r) ==
    /\ req[r].op \in {"start", "join"}
    /\ req[r].pc = "emit"
    /\ req'[r].pc = "done"
    /\ req'[r].code \in {200, 201}

\* C17: a session is created with status active, empty ledgers, no endTime and
\* no finalReport, and the request that created it publishes sessionStarted
\* for it, through startMonitoringSession and through joinExam alike.
C17_CreatedActiveAndAnnounced ==
    [][/\ Len(sessions') > Len(sessions)
             => LET s == sessions'[Len(sessions')]
                IN /\ s.status = "active"
                   /\ s.violations = <<>> /\ s.faceVerifications = <<>>
                   /\ s.endTime = NULL /\ s.finalReport = NoReport
       /\ \A r \in Requests :
             Announced(r) =>
                 events' = Append(events, [name |-> "sessionStarted",
                                           sid |-> req[r].sid, a |-> NULL])]_vars

\* C18: a reportViolation request on an existing session from a user who is
\* neither the session's student nor an admin or invigilator is answered
\* 403, appends nothing and publishes nothing.
C18_UnauthorizedReportRejected ==
    [][\A r \in Requests, u \in Users, sid \in SessionIndexes,
          severity \in ReportSeverities :
          (/\ sessions[sid].student # u
           /\ role(u) \notin {"admin", "invigilator"}
           /\ req'[r].op = "report"
           /\ reportViolation(r, u, sid, severity))
          => /\ req'[r].pc = "done"
             /\ req'[r].code = 403
             /\ sessions' = sessions
             /\ events' = events]_vars

C18_Witness ==
    /\ Len(sessions) = 1
    /\ sessions[1].violations = <<>>
    /\ \E r \in Requests :
          req[r].op = "report" /\ req[r].pc = "done" /\ req[r].code = 403

\* C19: a session is terminated only with a reason that was supplied: the
\* text the handler puts in place of a missing reason is never stored.
C19_TerminatedRequiresReason ==
    \A i \in SessionIndexes :
        sessions[i].terminationReason # "Session terminated"

\* The verifications of a session that call for a violation, and the
\* violations that verifyFace adds.
Flagged(s) ==
    {k \in 1..Len(s.faceVerifications) :
        s.faceVerifications[k].result \in {"multiple_faces", "failed"}}

Correlated(s) ==
    {k \in 1..Len(s.violations) :
        s.violations[k].type \in {"multiple_faces", "unauthorized_person"}}

\* C20: when no verifyFace call is in flight, every session holds as many
\* flagged verifications as correlated violations.
C20_VerificationPairedWithViolation ==
    (\A r \in Requests : req[r].op = "verify" => req[r].pc = "done")
        => \A i \in SessionIndexes :
              Cardinality(Flagged(sessions[i])) = Cardinality(Correlated(sessions[i]))

\* C21: the bulk update of endExam completes, with endTime set, every session
\* of the exam that is active, and leaves every other session as it is:
\* sessions of other exams and paused, completed or terminated sessions of
\* the exam.
C21_EndExamEndsActiveOnly ==
    [][\A r \in Requests :
          (/\ req[r].op = "endExam"
           /\ req[r].pc = "updateMany"
           /\ req'[r].pc = "emit")
          => /\ Len(sessions') = Len(sessions)
             /\ \A i \in 1..Len(sessions) :
                   IF sessions[i].exam = req[r].exam /\ sessions[i].status = "active"
                   THEN /\ sessions'[i].status = "completed"
                        /\ sessions'[i].endTime # NULL
                        /\ [sessions'[i] EXCEPT !.status = "active", !.endTime = NULL]
                               = sessions[i]
                   ELSE sessions'[i] = sessions[i]]_vars

\* endExam of e1 answered 200: the active session of s1 is completed, the
\* paused session of s2 is still paused, the session of exam e2 still active.
C21_Witness ==
    \E r \in Requests :
        /\ req[r].op = "endExam" /\ req[r].pc = "done" /\ req[r].code = 200
        /\ exams["e1"].status = "completed"
        /\ exams["e2"].status = "ongoing"
        /\ sessions[1].status = "completed" /\ sessions[1].endTime # NULL
        /\ sessions[2] = UpdateDoc(NewSession(2, "e1", "s2"), "paused", "reason")
        /\ sessions[3] = NewSession(3, "e2", "s1")

\* C22: when an endExam call for an exam whose status was saved as completed
\* is answered without a fault, and no other endExam of the exam is in
\* flight, no session of the exam is active: a call made after an interrupted
\* one transitions the sessions the interrupted call left active.
EndExamInFlight(e) ==
    \E q \in Requests : /\ req[q].op = "endExam"
                         /\ req[q].exam = e
                         /\ req[q].pc \notin {"idle", "done"}

\* An endExam call for exam e is answered in this step without a fault:
\* rejected on receipt, or answered 200 after its emit.
EndExamAnswered(r, e) ==
    \/ /\ \E u \in Users : endExam(r, u, e)
       /\ req'[r].pc = "done"
    \/ /\ endExam_emit(r)
       /\ req[r].exam = e
       /\ req'[r].code = 200

C22_EndExamResumable ==
    [][\A r \in Requests, e \in DOMAIN exams :
          (/\ EndExamAnswered(r, e)
           /\ exams'[e].status = "completed"
           /\ ~EndExamInFlight(e)')
          => \A i \in 1..Len(sessions') :
                 sessions'[i].exam = e => sessions'[i].status # "active"]_vars

\* C30: a session's isTerminated flag is true exactly when its status is
\* terminated.
C30_IsTerminatedIffTerminated ==
    \A i \in 1..Len(sessions) :
        sessions[i].isTerminated <=> sessions[i].status = "terminated"

\* C23: the ungated variants match a label to the first roster entry, in
\* roster order, whose normalized name equals, contains or is contained in
\* the normalized label, and to no later entry; to none when there is no
\* such entry.
Satisfies(u, label) ==
    LET n == normalize(fullName(u))
        l == normalize(label)
    IN n = l \/ includes(n, l) \/ includes(l, n)

C23_FirstMatchInRosterOrder ==
    (recon.variant \in {"ai", "photos"} /\ recon.labels = <<>>) =>
        LET candidates == {i \in 1..Len(recon.roster) :
                              Satisfies(recon.roster[i], recon.label)}
        IN /\ recon.matched = 0 <=> candidates = {}
           /\ recon.matched # 0 =>
                 /\ recon.matched \in candidates
                 /\ \A j \in candidates : recon.matched <= j
           /\ recon.status \in MatchedStatuses <=> recon.matched # 0

\* A label that differs from both names in case and whitespace, satisfied by
\* both roster entries, is matched to the first.
C23_Witness ==
    /\ recon.variant \in {"ai", "photos"}
    /\ Len(recon.roster) = 2
    /\ recon.label = <<" ", "A", " ", "A">>
    /\ Satisfies(recon.roster[1], recon.label)
    /\ Satisfies(recon.roster[2], recon.label)
    /\ recon.matched = 1

\* C27: the length-gated variant accepts a containment match only when the
\* contained normalized string has more than 2 characters.
C27_GatedContainment ==
    (recon.variant = "hybrid" /\ recon.labels = <<>> /\ recon.matched # 0) =>
        LET n == normalize(fullName(recon.roster[recon.matched]))
            l == normalize(recon.label)
        IN \/ n = l
           \/ includes(n, l) /\ Len(l) > 2
           \/ includes(l, n) /\ Len(n) > 2

Marking == Variants \cup {"mark"}

C25_PresentIsFinal ==
    [][/\ Len(attendance'.records) >= Len(attendance.records)
       /\ \A i \in 1..Len(attendance.records) :
             attendance.records[i].attendanceMark = "Present"
             => attendance'.records[i] = attendance.records[i]
       /\ \A r \in Requests :
             (req[r].op \in Marking /\ req[r].pc = "updateMany")
             => req'[r].code \in {0, 200}]_vars

\* A pass answered 200 that matched a student marked Present before it: it
\* updated nothing and the record kept the markedAt of the first marking.
C25_Witness ==
    \E r \in Requests, i \in 1..Len(attendance.records) :
        /\ req[r].op \in Variants /\ req[r].pc = "done" /\ req[r].code = 200
        /\ attendance.records[i].student \in Range(calls[r].ids)
        /\ attendance.records[i].attendanceDate = calls[r].date
        /\ calls[r].updated = 0
        /\ attendance.records[i].attendanceMark = "Present"
        /\ attendance.records[i].markedAt = 1
        /\ attendance.now = 3

\* C26: the bulk update of a reconciliation pass leaves a record of its date
\* Present exactly when it was Present or its student got a matched verdict
\* (is on presentStudentIds), and changes no other record; the present and
\* absent counts of the response are the numbers of Present and Absent
\* records the pass's query finds when it answers.
C26_PresentIffMatched ==
    [][\A r \in Requests :
          /\ (req[r].op \in Variants /\ req[r].pc = "updateMany"
                 /\ req'[r].pc = "summary")
             => \A i \in 1..Len(attendance.records) :
                    LET before == attendance.records[i]
                        after == attendance'.records[i]
                    IN IF QueryMatches(before, calls[r].date)
                       THEN after.attendanceMark = "Present"
                            <=> \/ before.attendanceMark = "Present"
                                \/ before.student \in Range(calls[r].ids)
                       ELSE after = before
          /\ (req[r].op \in Variants /\ req[r].pc = "summary"
                 /\ req'[r].pc = "done")
             => LET found == {i \in 1..Len(attendance'.records) :
                                 QueryMatches(attendance'.records[i],
                                              calls[r].date)}
                IN /\ calls'[r].present = Cardinality({i \in found :
                          attendance'.records[i].attendanceMark = "Present"})
                   /\ calls'[r].absent = Cardinality({i \in found :
                          attendance'.records[i].attendanceMark = "Absent"})]_vars

\* A pass answered 200 that marked one of the two students: present 1,
\* absent 1, and the marked record has a markedAt.
C26_Witness ==
    \E r \in Requests :
        /\ req[r].op \in Variants /\ req[r].pc = "done" /\ req[r].code = 200
        /\ calls[r].updated = 1
        /\ calls[r].present = 1 /\ calls[r].absent = 1
        /\ Len(attendance.records) = 2
        /\ attendance.records[1].attendanceMark = "Present"
        /\ attendance.records[1].markedAt # 0
        /\ attendance.records[2].attendanceMark = "Absent"

\* C28: when createInitialAttendance answers 201, every active student has
\* exactly one record for the date, Absent with no markedAt; a record is
\* created Absent, and becomes Present only from Absent, by the update of a
\* marking or of a reconciliation pass.
RecordsOf(records, u, date) ==
    {i \in 1..Len(records) : /\ records[i].student = u
                             /\ records[i].attendanceDate = date}

C28_InitializedAbsent ==
    [][/\ \A r \in Requests :
             (req[r].op = "create" /\ req[r].pc = "insertMany"
                /\ req'[r].code = 201)
             => \A u \in Range(ActiveStudents) :
                    \E i \in RecordsOf(attendance'.records, u, calls[r].date) :
                        /\ RecordsOf(attendance'.records, u, calls[r].date) = {i}
                        /\ attendance'.records[i].attendanceMark = "Absent"
                        /\ attendance'.records[i].markedAt = 0
       /\ \A i \in 1..Len(attendance'.records) :
             attendance'.records[i].attendanceMark = "Present"
             => /\ i <= Len(attendance.records)
                /\ \/ attendance.records[i].attendanceMark = "Present"
                   \/ \E r \in Requests :
                          /\ req[r].op \in Marking
                          /\ req[r].pc = "updateMany"
                          /\ req'[r].pc # "updateMany"]_vars

\* createInitialAttendance answered 201 and a marking then made the record
\* of s1 Present.
C28_Witness ==
    /\ \E r \in Requests :
          req[r].op = "create" /\ req[r].pc = "done" /\ req[r].code = 201
    /\ \E r \in Requests :
          req[r].op = "mark" /\ req[r].pc = "done" /\ calls[r].updated = 1
    /\ Len(attendance.records) = 2
    /\ attendance.records[1].attendanceMark = "Present"
    /\ attendance.records[2] = NewAttendance("s2", attendance.records[2].attendanceDate)

\* C29: no two records share a student and a date, and when
\* createInitialAttendance is answered for a date every active student has a
\* record for that date, records on other dates notwithstanding.
C29_UniquePerStudentAndDate ==
    [][/\ \A i, j \in 1..Len(attendance'.records) :
             (/\ attendance'.records[i].student = attendance'.records[j].student
              /\ attendance'.records[i].attendanceDate
                    = attendance'.records[j].attendanceDate)
             => i = j
       /\ \A r \in Requests :
             (req[r].op = "create" /\ req[r].pc = "insertMany"
                /\ req'[r].code \in {201, 409})
             => \A u \in Range(ActiveStudents) :
                    RecordsOf(attendance'.records, u, calls[r].date) # {}]_vars

\* C31: in every reachable state an attendance record has a non-null
\* markedAt exactly when its mark is Present.
C31_MarkedAtIffPresent ==
    \A i \in 1..Len(attendance.records) :
        (attendance.records[i].markedAt # 0)
            <=> (attendance.records[i].attendanceMark = "Present")

\* A reconciliation pass has marked one record and left another Absent.
C31_Witness ==
    /\ \E r \in Requests :
          /\ req[r].pc = "done"
          /\ req[r].op \in Variants
          /\ req[r].code = 200
          /\ calls[r].updated > 0
    /\ \E i, j \in 1..Len(attendance.records) :
          /\ attendance.records[i].attendanceMark = "Present"
          /\ attendance.records[i].markedAt # 0
          /\ attendance.records[j].attendanceMark = "Absent"
          /\ attendance.records[j].markedAt = 0

\* C32: for every session that has a finalReport, in every reachable state
\* and for every interleaving of reportViolation, verifyFace and
\* endMonitoringSession, finalReport.totalViolations equals the length of the
\* session's violations ledger.
C32_TotalViolationsIsLedgerLength ==
    \A i \in SessionIndexes :
        sessions[i].finalReport # NoReport
        => sessions[i].finalReport.totalViolations = Len(sessions[i].violations)

\* C33: once endExam has returned success for an exam, no monitoring session
\* of that exam has status active, for every interleaving of endExam with
\* joinExam and startMonitoringSession requests on the same exam: at the
\* step in which endExam answers 200 for the exam, none of its sessions is
\* active.
C33_NoActiveSessionAfterEndExam ==
    [][\A r \in Requests, e \in Exams :
          (/\ endExam_emit(r)
           /\ req[r].exam = e
           /\ req'[r].code = 200)
          => \A i \in 1..Len(sessions') :
                 sessions'[i].exam = e => sessions'[i].status # "active"]_vars

\* C38: in every reachable state a student appears at most once in an exam's
\* enrolledStudents list, for every sequence and every interleaving of
\* enrollStudent and unenrollStudent requests on that exam.
C38_EnrolledAtMostOnce ==
    \A e \in DOMAIN exams :
        \A i, j \in 1..Len(exams[e].enrolledStudents) :
            exams[e].enrolledStudents[i] = exams[e].enrolledStudents[j] => i = j

\* C34: a student whose verificationStatus is not verified never obtains a
\* monitoring session for an exam whose examSettings.faceVerificationRequired
\* is true, whichever entry point (joinExam or startMonitoringSession) is
\* used.
C34_UnverifiedNeverObtainsSession ==
    \A i \in SessionIndexes :
        faceVerificationRequired(sessions[i].exam)
        => verificationStatus(sessions[i].student) = "verified"

\* C35: a reported label whose normalized form is the empty string (empty or
\* whitespace-only) receives a not-found verdict and marks no student
\* Present, in every reconciliation variant and for every non-empty roster.
C35_EmptyLabelNotFound ==
    (/\ recon.variant # NULL
     /\ recon.labels = <<>>
     /\ recon.roster # <<>>
     /\ normalize(recon.label) = <<>>)
    => /\ recon.matched = 0
       /\ recon.status \in NotFoundStatuses

\* C36: the two ungated reconciliation implementations agree: for every
\* roster and every non-empty batch of labels, the loop with break of
\* verifyAttendanceWithAI and the find of verifyAttendanceWithPhotos produce
\* the same sequence of matched / not-found verdicts with the same matched
\* students, and leave the attendance records in the same state.
Counterpart(variant) == IF variant = "ai" THEN "photos" ELSE "ai"

C37_ConflictInsertsNothing ==
    [][\A r \in Requests :
          (/\ createInitialAttendance_insertMany(r)
           /\ req'[r].code = 409)
          => attendance'.records = attendance.records]_vars

====
